---- MODULE Spec2Model ----
(***************************************************************************)
(* Model of the flash-algorithm record parser of soul-composer             *)
(* (src/prog/arm/flash_device.rs): the segment resolver read_elf_bin_data, *)
(* the sector table reader parse_sectors and the record decoder            *)
(* FlashDevice::new.                                                       *)
(*                                                                         *)
(* A u32 is kept at its real width as a pair of 16-bit halves              *)
(* [hi |-> 0..65535, lo |-> 0..65535]; a u64 field of a program header     *)
(* carries its upper 32 bits in `top`.  `+` and `-` on u32 panic on        *)
(* overflow when the crate is built with overflow checks (dev profile) and *)
(* wrap otherwise (release profile); overflow_checks is that build switch. *)
(***************************************************************************)
EXTENDS Integers, Sequences, FiniteSets, TLC

VARIABLES
    overflow_checks,   \* build profile: TRUE = overflow panics, FALSE = wraps
    program_headers,   \* elf.program_headers, in program-header order
    buffer,            \* the ELF file bytes
    pc,                \* position of the caller / of FlashDevice::new
    req,               \* arguments of a direct read_elf_bin_data call
    res,               \* its return value
    address,           \* FlashDevice::new: the `address` argument
    offset,            \* parse_sectors: `offset`
    sectors,           \* parse_sectors: `sectors`
    sector_data,       \* parse_sectors: what the last resolver call of the loop returned
    data,              \* FlashDevice::new: the resolved 160-byte window
    result             \* what FlashDevice::new returned

vars == <<overflow_checks, program_headers, buffer, pc, req, res,
          address, offset, sectors, sector_data, data, result>>

----------------------------------------------------------------------------
(* Fixed-width integers *)

HALF == 65536

U32(h, l) == [hi |-> h, lo |-> l]

\* a small natural number as a u32
ToU32(n) == U32(n \div HALF, n % HALF)

U64(t, h, l) == [top |-> t, hi |-> h, lo |-> l]

\* `x as u32` on a u64: keeps the low 32 bits
as_u32(x) == U32(x.hi, x.lo)

Lt(a, b) == a.hi < b.hi \/ (a.hi = b.hi /\ a.lo < b.lo)
Le(a, b) == a = b \/ Lt(a, b)
Gt(a, b) == Lt(b, a)
Ge(a, b) == Le(b, a)

\* u64::min
min_u64(a, b) ==
    IF a.top < b.top \/ (a.top = b.top /\ Le(as_u32(a), as_u32(b))) THEN a ELSE b

\* a + b over the integers: the 32-bit sum and the carry out of bit 31
AddCarry(a, b) ==
    LET l == a.lo + b.lo
        h == a.hi + b.hi + (l \div HALF)
    IN  [carry |-> h \div HALF, val |-> U32(h % HALF, l % HALF)]

\* a - b: the 32-bit difference and the borrow
SubBorrow(a, b) ==
    LET l == a.lo - b.lo
        bl == IF l < 0 THEN 1 ELSE 0
        h == a.hi - b.hi - bl
    IN  [borrow |-> IF h < 0 THEN 1 ELSE 0,
         val |-> U32((h + HALF) % HALF, (l + HALF) % HALF)]

\* the value of `a + b` / `a - b` when the operation does not panic
Add(a, b) == AddCarry(a, b).val
Sub(a, b) == SubBorrow(a, b).val

\* whether `a + b` / `a - b` panics ("attempt to add with overflow")
AddPanics(a, b) == overflow_checks /\ AddCarry(a, b).carry = 1
SubPanics(a, b) == overflow_checks /\ SubBorrow(a, b).borrow = 1

----------------------------------------------------------------------------
(* Program constants *)

INFO_SIZE == 160
SECTOR_INFO_SIZE == 8
MAX_ID_STRING_LENGTH == 128
SECTOR_END == U32(65535, 65535)

----------------------------------------------------------------------------
(* Return values *)

None == [kind |-> "None"]
Panic == [kind |-> "Panic"]
Some(start, bytes) == [kind |-> "Some", start |-> start, bytes |-> bytes]

----------------------------------------------------------------------------
(* scroll::Pread on a byte slice, little endian; `off` is 0-based *)

pread_u8(d, off) == d[off + 1]
pread_u16(d, off) == d[off + 1] + 256 * d[off + 2]
pread_u32(d, off) == U32(pread_u16(d, off + 2), pread_u16(d, off))

----------------------------------------------------------------------------
(* FlashDevice::read_elf_bin_data *)

\* &buffer[start as usize..][..size as usize]: both slicings are bounds-checked
Slice(buf, start, size) ==
    IF Gt(start, ToU32(Len(buf))) THEN Panic
    ELSE LET s == start.hi * HALF + start.lo
         IN  IF Gt(size, ToU32(Len(buf) - s)) THEN Panic
             ELSE LET n == size.hi * HALF + size.lo
                  IN  Some(s, SubSeq(buf, s + 1, s + n))

\* the body of `for ph in &elf.program_headers` from the i-th header on
RECURSIVE scan_segments(_, _, _, _, _)
scan_segments(phs, buf, addr, size, i) ==
    IF i > Len(phs) THEN None
    ELSE
      LET ph == phs[i]
          segment_address == as_u32(ph.p_paddr)
          segment_size == as_u32(min_u64(ph.p_memsz, ph.p_filesz))
          segment_end == Add(segment_address, segment_size)
          req_end == Add(addr, size)
          rest == scan_segments(phs, buf, addr, size, i + 1)
      IN
        IF AddPanics(segment_address, segment_size) THEN Panic
        ELSE IF Gt(addr, segment_end) THEN rest
        ELSE IF AddPanics(addr, size) THEN Panic
        ELSE IF Le(req_end, segment_address) THEN rest
        ELSE IF Ge(addr, segment_address) /\ Le(req_end, segment_end) THEN
          IF AddPanics(as_u32(ph.p_offset), addr) THEN Panic
          ELSE IF SubPanics(Add(as_u32(ph.p_offset), addr), segment_address) THEN Panic
          ELSE Slice(buf, Sub(Add(as_u32(ph.p_offset), addr), segment_address), size)
        ELSE rest

read_elf_bin_data(phs, buf, addr, size) == scan_segments(phs, buf, addr, size, 1)

----------------------------------------------------------------------------
(* SectorInfo::new *)

SectorInfo_new(d) ==
    LET size == pread_u32(d, 0)
        addr == pread_u32(d, 4)
    IN  IF size # SECTOR_END /\ addr # SECTOR_END
        THEN [kind |-> "Some", sector |-> [address |-> addr, size |-> size]]
        ELSE None

----------------------------------------------------------------------------
(* FlashDevice::new, the decoding of the 160-byte window *)

\* String::from_utf8_lossy on sequences of 1- and 2-byte encodings: the code
\* points of the text.  A continuation byte behind a 2-byte lead is consumed with
\* it; any other byte above 0x7F starts no valid sequence and becomes U+FFFD.
\* (Name bytes of the inputs below stay under 0xE0, where this is exact.)
from_utf8_lossy(bytes) ==
    LET IsLead(i) == bytes[i] >= 194 /\ bytes[i] < 224
        IsCont(i) == bytes[i] >= 128 /\ bytes[i] < 192
        Consumed(i) == i > 1 /\ IsLead(i - 1) /\ IsCont(i)
        starts == {i \in 1..Len(bytes) : ~Consumed(i)}
        Nth(j) == CHOOSE i \in starts : Cardinality({m \in starts : m <= i}) = j
        CodePoint(i) ==
            IF bytes[i] < 128 THEN bytes[i]
            ELSE IF IsLead(i) /\ i < Len(bytes) /\ IsCont(i + 1)
                 THEN (bytes[i] - 192) * 64 + (bytes[i + 1] - 128)
            ELSE 65533
    IN  [j \in 1..Cardinality(starts) |-> CodePoint(Nth(j))]

\* a faulty variant: the position is taken in the whole window, not in the
\* subslice that starts at byte 2
hypothetical_length_in_window(d) ==
    LET zeros == {k \in 0..(MAX_ID_STRING_LENGTH - 1) : d[2 + k + 1] = 0}
    IN  IF zeros = {} THEN MAX_ID_STRING_LENGTH
        ELSE 2 + (CHOOSE k \in zeros : \A j \in zeros : k <= j)

\* data[2..2 + MAX_ID_STRING_LENGTH].iter().position(|&c| c == 0)
\*     .unwrap_or(MAX_ID_STRING_LENGTH)
hypothetical_length(d) ==
    LET zeros == {k \in 0..(MAX_ID_STRING_LENGTH - 1) : d[2 + k + 1] = 0}
    IN  IF zeros = {} THEN MAX_ID_STRING_LENGTH
        ELSE CHOOSE k \in zeros : \A j \in zeros : k <= j

sanitized_length(d) ==
    IF MAX_ID_STRING_LENGTH <= hypothetical_length(d)
    THEN MAX_ID_STRING_LENGTH ELSE hypothetical_length(d)

\* a faulty variant: the three padding bytes behind erased_default_value are
\* forgotten, so both timeouts are read 3 bytes early
FlashDevice_unpadded(d, secs) ==
    [driver_version |-> pread_u16(d, 0),
     name |-> from_utf8_lossy(SubSeq(d, 3, 2 + sanitized_length(d))),
     typ |-> pread_u16(d, 130),
     start_address |-> pread_u32(d, 132),
     device_size |-> pread_u32(d, 136),
     page_size |-> pread_u32(d, 140),
     reserved |-> pread_u32(d, 144),
     erased_default_value |-> pread_u8(d, 148),
     program_page_timeout |-> pread_u32(d, 149),
     erase_sector_timeout |-> pread_u32(d, 153),
     sectors |-> secs]

\* the struct literal Ok(Self { ... })
FlashDevice(d, secs) ==
    [driver_version |-> pread_u16(d, 0),
     name |-> from_utf8_lossy(SubSeq(d, 3, 2 + sanitized_length(d))),
     typ |-> pread_u16(d, 130),
     start_address |-> pread_u32(d, 132),
     device_size |-> pread_u32(d, 136),
     page_size |-> pread_u32(d, 140),
     reserved |-> pread_u32(d, 144),
     erased_default_value |-> pread_u8(d, 148),
     program_page_timeout |-> pread_u32(d, 152),
     erase_sector_timeout |-> pread_u32(d, 156),
     sectors |-> secs]

\* ArmError::ReadBinaryInfoFail(format!("Read address: {:#010x}, size: {} bytes", ..))
ReadBinaryInfoFail(addr, size) ==
    [kind |-> "Err", error |-> "ReadBinaryInfoFail", address |-> addr, size |-> size]

----------------------------------------------------------------------------
(* Inputs: ELF images holding a flash-device record.  Every image is a       *)
(* well-formed file: the file range of each program header lies inside the   *)
(* buffer.  Segments are placed low, at the top of the address space, side   *)
(* by side, overlapping, and with 64-bit header fields.                      *)

\* bounds of the enumerated inputs
MaxEntries == 2     \* sector entries in front of the end of a table
PadLen == 52        \* file bytes in front of the first segment's data
GapLen == 16        \* file bytes between the data of two segments

NameLens == {0, 2, 5, MAX_ID_STRING_LENGTH}
Endings == {"both", "size_only", "address_only", "none"}
Layouts == {"single", "wide", "split", "split_aligned", "overlap",
            "partial_first", "top_exact", "top_near", "hdr_gap"}

Min(a, b) == IF a <= b THEN a ELSE b

Filler(n, seed) == [i \in 1..n |-> (i * 13 + seed) % 256]

LE32(v) == <<v.lo % 256, v.lo \div 256, v.hi % 256, v.hi \div 256>>

\* the k-th byte of a name of n bytes: a 2-byte character at 1..2, a stray
\* continuation byte at 3, ASCII elsewhere
NameByte(k) ==
    IF k = 1 THEN 195 ELSE IF k = 2 THEN 169 ELSE IF k = 3 THEN 128
    ELSE 65 + (k % 26)

\* the 160 bytes of the fixed part; the name field holds n name bytes, a zero
\* (when n < 128) and then leftovers with further zeros
HeaderBytes(n) ==
    [j \in 1..INFO_SIZE |->
        LET i == j - 1
            k == i - 2
        IN  IF i >= 2 /\ k < MAX_ID_STRING_LENGTH
            THEN IF k < n THEN NameByte(k)
                 ELSE IF k = n THEN 0
                 ELSE IF k % 7 = 0 THEN 0 ELSE 66
            ELSE ((i * 37 + 11) % 255) + 1]

EntryBytes(size, addr) == LE32(size) \o LE32(addr)

ValidEntry(k) == EntryBytes(U32(1, 1024 + k), U32(2048 + k, 4096 * k + 2))

RECURSIVE ValidEntries(_)
ValidEntries(n) == IF n = 0 THEN <<>> ELSE ValidEntries(n - 1) \o ValidEntry(n)

\* what follows the valid entries: the terminator, an entry with only one field
\* equal to 0xFFFFFFFF (then one more entry and the terminator), or nothing
TableEnd(ending) ==
    LET term == EntryBytes(SECTOR_END, SECTOR_END)
    IN  CASE ending = "both" -> term
          [] ending = "size_only" ->
                EntryBytes(SECTOR_END, U32(2048, 28672)) \o ValidEntry(9) \o term
          [] ending = "address_only" ->
                EntryBytes(U32(0, 512), SECTOR_END) \o ValidEntry(9) \o term
          [] OTHER -> <<>>

Blob(n, entries, ending) == HeaderBytes(n) \o ValidEntries(entries) \o TableEnd(ending)

PH(paddr, poffset, filesz, memsz) ==
    [p_paddr |-> paddr, p_offset |-> poffset, p_filesz |-> filesz, p_memsz |-> memsz]

W(v) == U64(0, v.hi, v.lo)
N64(n) == W(ToU32(n))

\* 2^32 - n
Top(n) == Sub(ToU32(0), ToU32(n))

Image(layout, blob) ==
    LET len == Len(blob)
        pad == Filler(PadLen, 7)
        cut == Min(IF layout = "split" THEN INFO_SIZE + 4
                   ELSE INFO_SIZE + SECTOR_INFO_SIZE, len)
    IN  CASE layout = "single" ->
              [phs |-> <<PH(N64(0), N64(PadLen), N64(len), N64(len + 16))>>,
               file |-> pad \o blob]
          [] layout = "wide" ->
              [phs |-> <<PH(U64(1, 0, 256), N64(PadLen), N64(len), U64(1, 0, 0))>>,
               file |-> pad \o blob]
          [] layout \in {"split", "split_aligned"} ->
              [phs |-> <<PH(N64(4096), N64(PadLen), N64(cut), N64(cut)),
                         PH(N64(4096 + cut), N64(PadLen + cut + GapLen),
                            N64(len - cut), N64(len - cut))>>,
               file |-> pad \o SubSeq(blob, 1, cut) \o Filler(GapLen, 3)
                            \o SubSeq(blob, cut + 1, len)]
          [] layout = "overlap" ->
              [phs |-> <<PH(N64(8192), N64(PadLen), N64(len), N64(len)),
                         PH(N64(8192), N64(PadLen + len), N64(len), N64(len))>>,
               file |-> pad \o blob \o Filler(len, 5)]
          [] layout = "partial_first" ->
              [phs |-> <<PH(N64(12288 + 80), N64(PadLen + len), N64(16), N64(16)),
                         PH(N64(12288), N64(PadLen), N64(len), N64(len))>>,
               file |-> pad \o blob \o Filler(16, 5)]
          [] layout = "top_exact" ->
              [phs |-> <<PH(W(Top(len)), N64(PadLen), N64(len), N64(len))>>,
               file |-> pad \o blob]
          [] layout = "top_near" ->
              [phs |-> <<PH(W(Top(len + 1)), N64(PadLen), N64(len), N64(len))>>,
               file |-> pad \o blob]
          [] OTHER ->
              [phs |-> <<PH(N64(16384 + 8), N64(PadLen + 8), N64(len - 8), N64(len - 8))>>,
               file |-> pad \o blob]

Images ==
    {Image(layout, Blob(n, entries, ending)) :
        layout \in Layouts,
        n \in NameLens,
        entries \in 0..MaxEntries,
        ending \in Endings}

segment_address_of(ph) == as_u32(ph.p_paddr)
segment_size_of(ph) == as_u32(min_u64(ph.p_memsz, ph.p_filesz))

\* the addresses a caller asks for: around the start and the end of each segment
BaseAddresses ==
    UNION {{segment_address_of(program_headers[i]),
            Sub(segment_address_of(program_headers[i]), ToU32(8))} :
                i \in 1..Len(program_headers)}
      \cup {Top(INFO_SIZE)}

ReqAddresses ==
    UNION {LET sa == segment_address_of(program_headers[i])
               se == Add(sa, segment_size_of(program_headers[i]))
           IN  {sa, Sub(sa, ToU32(4)), Add(sa, ToU32(4)),
                Sub(se, ToU32(8)), Sub(se, ToU32(4)), se} :
                i \in 1..Len(program_headers)}

ReqSizes == {ToU32(4), ToU32(SECTOR_INFO_SIZE), ToU32(INFO_SIZE)}

----------------------------------------------------------------------------
(* The state machine *)

NoValue == [kind |-> "unset"]

Init ==
    /\ overflow_checks \in BOOLEAN
    /\ \E img \in Images :
          /\ program_headers = img.phs
          /\ buffer = img.file
    /\ pc = "idle"
    /\ req = NoValue
    /\ res = NoValue
    /\ address = ToU32(0)
    /\ offset = ToU32(0)
    /\ sectors = <<>>
    /\ sector_data = NoValue
    /\ data = NoValue
    /\ result = NoValue

\* a caller invokes FlashDevice::read_elf_bin_data(elf, buffer, a, s)
ReadElfBinData(a, s) ==
    /\ pc = "idle"
    /\ req' = [address |-> a, size |-> s]
    /\ res' = read_elf_bin_data(program_headers, buffer, a, s)
    /\ pc' = "read_returned"
    /\ UNCHANGED <<overflow_checks, program_headers, buffer, address, offset,
                   sectors, sector_data, data, result>>

\* a caller invokes FlashDevice::new(elf, buffer, a), which enters parse_sectors
CallNew(a) ==
    /\ pc = "idle"
    /\ address' = a
    /\ offset' = ToU32(INFO_SIZE)
    /\ sectors' = <<>>
    /\ pc' = "parse_sectors"
    /\ UNCHANGED <<overflow_checks, program_headers, buffer, req, res,
                   sector_data, data, result>>

\* one evaluation of the `while let` head of parse_sectors and, when it binds,
\* of the loop body
ParseSectorsStep ==
    /\ pc = "parse_sectors"
    /\ LET d == IF AddPanics(address, offset) THEN Panic
                ELSE read_elf_bin_data(program_headers, buffer,
                                       Add(address, offset), ToU32(SECTOR_INFO_SIZE))
           s == SectorInfo_new(d.bytes)
       IN  /\ sector_data' = d
           /\ IF d.kind = "Panic"
              THEN /\ pc' = "panicked"
                   /\ result' = [kind |-> "Panic", in |-> "parse_sectors"]
                   /\ UNCHANGED <<offset, sectors>>
              ELSE IF d.kind = "None"
              THEN /\ pc' = "read_info"
                   /\ UNCHANGED <<offset, sectors, result>>
              ELSE IF s.kind = "Some"
              THEN IF AddPanics(offset, ToU32(8))
                   THEN /\ pc' = "panicked"
                        /\ result' = [kind |-> "Panic", in |-> "parse_sectors"]
                        /\ sectors' = Append(sectors, s.sector)
                        /\ UNCHANGED offset
                   ELSE /\ sectors' = Append(sectors, s.sector)
                        /\ offset' = Add(offset, ToU32(8))
                        /\ UNCHANGED <<pc, result>>
              ELSE /\ pc' = "read_info"
                   /\ UNCHANGED <<offset, sectors, result>>
    /\ UNCHANGED <<overflow_checks, program_headers, buffer, req, res, address, data>>

\* FlashDevice::new after parse_sectors returned: the read of the 160-byte window
ReadInfo ==
    /\ pc = "read_info"
    /\ LET d == read_elf_bin_data(program_headers, buffer, address, ToU32(INFO_SIZE))
       IN  /\ data' = d
           /\ IF d.kind = "Panic"
              THEN /\ pc' = "panicked"
                   /\ result' = [kind |-> "Panic", in |-> "new"]
              ELSE IF d.kind = "None"
              THEN /\ pc' = "returned"
                   /\ result' = ReadBinaryInfoFail(address, INFO_SIZE)
              ELSE /\ pc' = "decode"
                   /\ UNCHANGED result
    /\ UNCHANGED <<overflow_checks, program_headers, buffer, req, res,
                   address, offset, sectors, sector_data>>

\* FlashDevice::new: the name length and the struct literal
Decode ==
    /\ pc = "decode"
    /\ result' = [kind |-> "Ok", device |-> FlashDevice(data.bytes, sectors)]
    /\ pc' = "returned"
    /\ UNCHANGED <<overflow_checks, program_headers, buffer, req, res,
                   address, offset, sectors, sector_data, data>>

Next ==
    \/ \E a \in ReqAddresses, s \in ReqSizes : ReadElfBinData(a, s)
    \/ \E a \in BaseAddresses : CallNew(a)
    \/ ParseSectorsStep
    \/ ReadInfo
    \/ Decode

Spec == Init /\ [][Next]_vars

----------------------------------------------------------------------------
(* Reference notions the properties are stated with: containment and windows *)
(* over the unbounded integers, independent of the code's 32-bit arithmetic  *)

\* x <= y for two sums given with their carries
WideLe(x, y) == x.carry < y.carry \/ (x.carry = y.carry /\ Le(x.val, y.val))

\* [a, a+s) lies inside [segment_address, segment_address + segment_size)
Contains(ph, a, s) ==
    /\ Ge(a, segment_address_of(ph))
    /\ WideLe(AddCarry(a, s), AddCarry(segment_address_of(ph), segment_size_of(ph)))

Containing(a, s) ==
    {i \in 1..Len(program_headers) : Contains(program_headers[i], a, s)}

IntOf(v) == v.hi * HALF + v.lo

\* the little-endian u32 at 0-based index i of a byte sequence
WordAt(b, i) == U32(b[i + 3] + 256 * b[i + 4], b[i + 1] + 256 * b[i + 2])

\* the window of [a, a+s) mapped through segment i:
\* buffer index file_offset + (a - segment_address), s bytes
WindowThrough(i, a, s) ==
    LET ph == program_headers[i]
        start == IntOf(as_u32(ph.p_offset)) + IntOf(Sub(a, segment_address_of(ph)))
    IN  [kind |-> "Some", start |-> start,
         bytes |-> [j \in 1..IntOf(s) |-> buffer[start + j]]]

FirstContaining(a, s) == CHOOSE i \in Containing(a, s) : \A j \in Containing(a, s) : i <= j

\* the answer of the resolver as the specification describes it
Resolved(a, s) ==
    IF Containing(a, s) = {} THEN None ELSE WindowThrough(FirstContaining(a, s), a, s)

\* the same for an address given as a sum with carry: nothing lies at or above 2^32
ResolvedWide(x, s) == IF x.carry = 1 THEN None ELSE Resolved(x.val, s)

InNew == pc \in {"parse_sectors", "read_info", "decode", "returned", "panicked"}
NewEnded == pc \in {"returned", "panicked"}

----------------------------------------------------------------------------
(* Properties *)

\* C1: a range that lies fully inside a segment resolves to a window of exactly
\* `size` bytes that starts at file_offset + (address - segment_address) of a
\* containing segment and holds the buffer bytes at those indices.
C1_ContainedRangeResolves ==
    (pc = "read_returned" /\ Containing(req.address, req.size) # {}) =>
        /\ res.kind = "Some"
        /\ Len(res.bytes) = IntOf(req.size)
        /\ \E i \in Containing(req.address, req.size) :
              res = WindowThrough(i, req.address, req.size)

\* C2: a range that no single segment fully contains (straddling two segments,
\* overlapping one partially, or outside all) resolves to None.
C2_UncontainedRangeIsNone ==
    (pc = "read_returned" /\ Containing(req.address, req.size) = {}) =>
        res = None

\* C3: when no segment fully contains the 160-byte window at the base address,
\* FlashDevice::new ends with ReadBinaryInfoFail carrying the address and 160,
\* and with no device, whatever the sector scan found before.
C3_MissingHeaderIsError ==
    (NewEnded /\ Containing(address, ToU32(INFO_SIZE)) = {}) =>
        result = ReadBinaryInfoFail(address, INFO_SIZE)

\* C4: on a resolved 8-byte sector window the reader stops without emitting
\* exactly when size and address both equal 0xFFFFFFFF; otherwise it emits
\* SectorInfo{address, size}, advances the offset by 8 and keeps scanning.
C4_StopsOnlyOnFullTerminator ==
    [][(pc = "parse_sectors" /\ sector_data'.kind = "Some") =>
          LET size == WordAt(sector_data'.bytes, 0)
              addr == WordAt(sector_data'.bytes, 4)
          IN  IF size = SECTOR_END /\ addr = SECTOR_END
              THEN pc' = "read_info" /\ sectors' = sectors /\ offset' = offset
              ELSE /\ sectors' = Append(sectors, [address |-> addr, size |-> size])
                   /\ offset' = Add(offset, ToU32(SECTOR_INFO_SIZE))
                   /\ pc' = "parse_sectors"]_vars

\* the 8-byte window of sector entry n, as the specification describes it
EntryWindow(n) ==
    ResolvedWide(AddCarry(address, ToU32(INFO_SIZE + SECTOR_INFO_SIZE * n)),
                 ToU32(SECTOR_INFO_SIZE))

IsTerminator(w) ==
    w.kind = "Some" /\ WordAt(w.bytes, 0) = SECTOR_END /\ WordAt(w.bytes, 4) = SECTOR_END

\* C5: parse_sectors returns exactly the entries in front of the first stop:
\* entry n is {size: u32 at base+160+8n, address: u32 at base+160+8n+4}, and the
\* length is the least n whose window is unresolvable or is the terminator.
C5_SectorsAreEntriesBeforeFirstStop ==
    (pc \in {"read_info", "decode", "returned"}) =>
        /\ \A n \in 0..(Len(sectors) - 1) :
              /\ EntryWindow(n).kind = "Some"
              /\ ~IsTerminator(EntryWindow(n))
              /\ sectors[n + 1] = [address |-> WordAt(EntryWindow(n).bytes, 4),
                                   size |-> WordAt(EntryWindow(n).bytes, 0)]
        /\ EntryWindow(Len(sectors)).kind = "None" \/ IsTerminator(EntryWindow(Len(sectors)))

\* C6: the name covers exactly window bytes 2 .. 2+L, L being the index of the
\* first zero byte among bytes 2..130 or 128 when there is none; L <= 128 and the
\* window has 160 bytes, so byte 130 and beyond are never part of the name.
C6_NameStopsAtFirstZeroOr128 ==
    (pc \in {"decode", "returned"} /\ data.kind = "Some") =>
        /\ Len(data.bytes) = INFO_SIZE
        /\ (pc = "returned" =>
              /\ result.kind = "Ok"
              /\ \E L \in 0..128 :
                    /\ \A k \in 0..(L - 1) : data.bytes[2 + k + 1] # 0
                    /\ L = 128 \/ data.bytes[2 + L + 1] = 0
                    /\ result.device.name = from_utf8_lossy([k \in 1..L |-> data.bytes[2 + k]]))

\* C6 happens: a record decoded from a name field without any zero byte, and
\* one decoded from a name field with a zero byte inside
C6_Witness ==
    /\ pc = "returned" /\ result.kind = "Ok"
    /\ \A k \in 0..127 : data.bytes[2 + k + 1] # 0
    /\ Len(result.device.name) > 100

C6_WitnessShortName ==
    /\ pc = "returned" /\ result.kind = "Ok"
    /\ data.bytes[2 + 5 + 1] = 0
    /\ Len(result.device.name) = 4

\* C7: once the 160-byte window resolved, FlashDevice::new returns Ok and each
\* fixed field is the little-endian value of the window bytes at its offset:
\* driver_version@0 (2), typ@130 (2), start_address@132, device_size@136,
\* page_size@140, reserved@144 (4 each), erased_default_value@148 (1),
\* program_page_timeout@152, erase_sector_timeout@156 (4 each); nothing is read
\* past byte 159 and bytes 149..151 appear in no field.
C7_FixedFieldsAreLittleEndianAtOffsets ==
    (NewEnded /\ data.kind = "Some") =>
        /\ result.kind = "Ok"
        /\ Len(data.bytes) = INFO_SIZE
        /\ LET b == data.bytes
               dev == result.device
           IN  /\ dev.driver_version = b[1] + 256 * b[2]
               /\ dev.typ = b[131] + 256 * b[132]
               /\ dev.start_address = U32(b[135] + 256 * b[136], b[133] + 256 * b[134])
               /\ dev.device_size = U32(b[139] + 256 * b[140], b[137] + 256 * b[138])
               /\ dev.page_size = U32(b[143] + 256 * b[144], b[141] + 256 * b[142])
               /\ dev.reserved = U32(b[147] + 256 * b[148], b[145] + 256 * b[146])
               /\ dev.erased_default_value = b[149]
               /\ dev.program_page_timeout = U32(b[155] + 256 * b[156], b[153] + 256 * b[154])
               /\ dev.erase_sector_timeout = U32(b[159] + 256 * b[160], b[157] + 256 * b[158])
               /\ dev.sectors = sectors

\* C7 happens: a record was decoded from a resolved window, with sectors attached
C7_Witness ==
    /\ pc = "returned" /\ data.kind = "Some" /\ result.kind = "Ok"
    /\ Len(result.device.sectors) = 2
    /\ result.device.start_address # result.device.device_size

\* C8: the sector scan ends only through a terminator entry or through loss of
\* single-segment coverage of the window at base+offset (never otherwise), and
\* the offset is 160 plus 8 for every entry emitted.
C8_ScanEndsByTerminatorOrLostCoverage ==
    InNew =>
        /\ ~(result.kind = "Panic" /\ result.in = "parse_sectors")
        /\ offset = ToU32(INFO_SIZE + 8 * Len(sectors))
        /\ (pc \in {"read_info", "decode", "returned"} /\ sector_data.kind = "None") =>
              EntryWindow(Len(sectors)).kind = "None"

\* Every iteration that stays in the loop emits one entry and raises the offset:
\* apart from the exits, the scan behaves as C8 describes.
ScanOffsetGrows ==
    [][(pc = "parse_sectors" /\ pc' = "parse_sectors") =>
          (Lt(offset, offset') /\ Len(sectors') = Len(sectors) + 1)]_vars

\* C9: the window returned is that of the first segment, in program-header
\* order, that fully contains the range; an earlier segment that overlaps the
\* range only partially does not stop a later containing one from being used.
C9_FirstContainingSegmentWins ==
    (pc = "read_returned" /\ Containing(req.address, req.size) # {}) =>
        res = WindowThrough(FirstContaining(req.address, req.size), req.address, req.size)

\* whether a sum that read_elf_bin_data(.., a, s) evaluates, from the i-th
\* program header on, exceeds 2^32 - 1
RECURSIVE SumOverflows(_, _, _)
SumOverflows(a, s, i) ==
    IF i > Len(program_headers) THEN FALSE
    ELSE
      LET ph == program_headers[i]
          sa == segment_address_of(ph)
          se == AddCarry(sa, segment_size_of(ph))
          re == AddCarry(a, s)
      IN  \/ se.carry = 1
          \/ IF Gt(a, se.val) THEN SumOverflows(a, s, i + 1)
             ELSE \/ re.carry = 1
                  \/ IF Le(re.val, sa) THEN SumOverflows(a, s, i + 1)
                     ELSE IF Ge(a, sa) /\ Le(re.val, se.val)
                          THEN AddCarry(as_u32(ph.p_offset), a).carry = 1
                          ELSE SumOverflows(a, s, i + 1)

\* C10: no 32-bit sum of the resolver or of the sector scan exceeds 2^32 - 1 on
\* a reachable call, so the resolver answers as the containment test over the
\* unbounded integers does.
C10_SumsNeverOverflow ==
    /\ pc = "read_returned" =>
          /\ ~SumOverflows(req.address, req.size, 1)
          /\ res = Resolved(req.address, req.size)
    /\ pc = "parse_sectors" => AddCarry(address, offset).carry = 0

\* Without an overflowing sum the resolver does answer as the specification
\* describes: every divergence found above goes back to 32-bit overflow.
AgreesWhenSumsFit ==
    (pc = "read_returned" /\ ~SumOverflows(req.address, req.size, 1)) =>
        res = Resolved(req.address, req.size)

====
